---- MODULE Spec2Model ----
(***************************************************************************)
(* Model of the Teami backend (Node.js API service) and of the turn worker *)
(* it drives.  The store is the PostgreSQL schema of schema.sql; every     *)
(* handler of the API is one action (or one action per database           *)
(* transaction when the handler commits more than once).                   *)
(***************************************************************************)
EXTENDS Integers, Sequences, FiniteSets, TLC

\* ------------------------------------------------------------------ bounds
MaxMsgs     == 2        \* rows of the messages table
MaxClock    == 3        \* readings of NOW()
MaxLimit    == 2        \* largest value a set-budget request carries
MaxDebt     == 1        \* how far below zero decrements are followed
MaxLogs     == 1        \* rows of the logs table
MaxNudges   == 1        \* nudge requests in flight per project
MaxWrites   == 3        \* writing requests followed through the live-update hub
MaxCount    == 2        \* largest message_count and summary_count followed

\* ------------------------------------------------------- program constants
SystemAgentId == 0

Users      == {1, 2}                     \* authenticated callers
Owners     == {1}                        \* callers that create projects
\* the ids the projects table hands out; no handler reads across projects
ProjectIdSpace == {1}
Titles     == {"t1"}
MsgTypes   == {"user", "system"}          \* accepted values of body.type
NoType     == "none"                      \* body.type absent
Statuses   == {"pending", "sent", "failed"}

\* The inline agent lists a create-project request carries: one entry per
\* agent, the entry being its canMessageIds (indexes into the same list).
AgentInputs ==
  { << <<>> >>,
    << <<0, 1>>, <<2>> >> }

\* create-project requests that can be in progress at once
Requests == {1, 2}

\* ids a second project can take (projects.id, SERIAL)
WideIdSpace == {1, 2}

\* tokenId of a create-project request: 0 is null, 1 an active token of the
\* caller, 2 a token that is not active
TokenInputs == {0, 1, 2}

\* the tokens the users have added: 1 and 2 are user 1's, 3 is user 2's, and
\* user 1 has disabled token 2
InitTokens ==
  [t \in {1, 2, 3} |-> [user_id |-> IF t = 3 THEN 2 ELSE 1, active |-> t # 2]]

\* receiverId of a start-conversation request
ReceiverIds == {0, 1, 2}

IdleSwitch == [pc |-> "idle", p |-> 0, tokenId |-> 0, u |-> 0,
               snapshot |-> {}, deleted |-> {}]

IdleDeletion == [pc |-> "idle", tokenId |-> 0, u |-> 0]

\* agent ids of the memory calls: System and the agents of a project
AgentIdSpace == {0, 1, 2}

\* the summary text of a save-summary request
Summaries == {"s1"}

IdleSave == [pc |-> "idle", p |-> 0, a |-> 0, summary |-> "", summary_count |-> 0]

NoCalls == [increments |-> 0, summaries |-> 0]

IdleCreate == [pc |-> "idle", u |-> 0, title |-> "", agents |-> << >>, tokenId |-> 0]

\* WebSocket connections of the live-update hub
Sockets == {1, 2}

\* the threads the brain handles nudges with
Workers == {1, 2}
IdleRun == [pc |-> "idle", project |-> 0, trigger |-> 0, attempts |-> 0, recipient |-> 0]

VARIABLES
  projects,       \* projects table: id -> row
  nextAgentId,    \* next value of agents.id (SERIAL)
  members,        \* project_agent_members rows
  conversations,  \* conversations table, index = id
  messages,       \* messages table, index = id
  logs,           \* logs table, index = id
  now,            \* NOW()
  nudges,         \* project id -> nudge requests sent to the brain, not yet handled
  emitted,        \* events handed to broadcastToProject by the last step
  response,       \* what the handler of the last step returned, << >> if nothing
  decr,           \* project id -> progress of a decrement-limit request
  lock,           \* brain: project id -> a run holds the project's lock
  recheck,        \* brain: project id -> a nudge arrived while the lock was held
  run,            \* brain: worker thread -> its position in a run
  decrements,     \* project id -> decrement-limit calls the worker has made
  sock,           \* hub: socket -> "closed", "open" or "closing" (its readyState)
  joined,         \* hub: socket -> project of its entry in the clients map, 0 if none
                  \*      (SpecHub: the key of the entry as the join frame gave it)
  pendingMessages,\* hub: project id -> events queued while no client is in the map
                  \*      (SpecHub: key -> events, keys compared as Map does)
  received,       \* hub: socket -> events sent to it, in order
  writes,         \* writing requests in progress or finished, index = event id
  commitLog,      \* ids of the writes whose transaction committed, in commit order
  creates,        \* create-project request -> its transaction in progress
  tokens,         \* tokens table: id -> row
  project_tokens, \* project_tokens rows
  switches,       \* change-token request -> its transaction in progress
  deletion,       \* the delete-token request in progress
  agent_history_summaries, \* agent_history_summaries rows
  saves,          \* save-summary request -> its statement in progress
  memoryCalls     \* (project, agent) -> calls applied to the pair's memory row

vars == << projects, nextAgentId, members, conversations, messages, logs,
           now, nudges, emitted, response, decr, lock, recheck, run, decrements,
           sock, joined, pendingMessages, received, writes, commitLog, creates,
           tokens, project_tokens, switches, deletion,
           agent_history_summaries, saves, memoryCalls >>

\* the hub and the writes it is followed with; SpecLive alone moves them
hubVars == << sock, joined, pendingMessages, received, writes, commitLog >>

\* the tokens and the token requests in progress
tokenVars == << tokens, switches, deletion >>

\* the agents' memory rows and the calls on them
memoryVars == << agent_history_summaries, saves, memoryCalls >>

\* the hub and the create-project transactions in progress: left alone by
\* every handler that is followed as one step
liveVars == << hubVars, creates, tokenVars, memoryVars >>

brainVars == << lock, recheck, run, decrements >>

ProjectIds == DOMAIN projects

Min(a, b) == IF a <= b THEN a ELSE b
Max(a, b) == IF a >= b THEN a ELSE b

Event(type, p) == [type |-> type, projectId |-> p]

\* ------------------------------------------------------ live-update and nudge
\* broadcastToProject: the events a handler step hands to the hub, in order
broadcastToProject(events) == emitted' = events

\* the value a service call returns to its caller
respond(v) == response' = v

\* nudgeBrain: one more POST /nudge-brain in flight for the project
nudgeBrain(p) == nudges' = [nudges EXCEPT ![p] = @ + 1]

\* ------------------------------------------------------------ create project
\* indexToIdMap[i] for the i-th inline agent (0-based), -1 when undefined
IndexToId(base, n, i) == IF i \in 0..(n - 1) THEN base + i ELSE -1

\* member.canMessageIndexes.map(i => indexToIdMap[i]).filter(...)
CanMessageIds(idxs, base, n, self) ==
  SelectSeq([k \in 1..Len(idxs) |-> IndexToId(base, n, idxs[k])],
            LAMBDA id : id # -1 /\ id # self)

HasConversation(convs, p, sid, rid) ==
  \E k \in 1..Len(convs) :
    convs[k].project_id = p /\ convs[k].sender_id = sid /\ convs[k].receiver_id = rid

\* INSERT INTO conversations ... ON CONFLICT DO NOTHING, for every otherId
RECURSIVE AddPairs(_, _, _, _)
AddPairs(convs, p, self, ids) ==
  IF ids = <<>> THEN convs
  ELSE LET sid == Min(self, Head(ids))
           rid == Max(self, Head(ids))
           next == IF HasConversation(convs, p, sid, rid) THEN convs
                   ELSE Append(convs, [project_id |-> p, sender_id |-> sid,
                                       receiver_id |-> rid])
       IN AddPairs(next, p, self, Tail(ids))

\* memberList without the push of the System agent
MemberList_NoSystem(agents, base) ==
  [k \in 1..Len(agents) |->
     [agentId |-> base + k - 1, canMessageIndexes |-> agents[k]]]

\* memberList: the inline agents in order, then the System agent
MemberList(agents, base) ==
  LET n == Len(agents)
  IN [k \in 1..(n + 1) |->
        IF k <= n
        THEN [agentId |-> base + k - 1, canMessageIndexes |-> agents[k]]
        ELSE [agentId |-> SystemAgentId,
              canMessageIndexes |-> [i \in 1..n |-> i - 1]]]

RECURSIVE InsertMembers(_, _, _, _, _)
InsertMembers(acc, list, p, base, n) ==
  IF list = <<>> THEN acc
  ELSE LET m   == Head(list)
           ids == CanMessageIds(m.canMessageIndexes, base, n, m.agentId)
       IN InsertMembers(
            [rows  |-> acc.rows \cup {[project_id |-> p, agent_id |-> m.agentId,
                                       can_message_ids |-> ids]},
             convs |-> AddPairs(acc.convs, p, m.agentId, ids)],
            Tail(list), p, base, n)

\* SELECT id FROM projects WHERE user_id = $1 AND title = $2
TitleExists(u, title) ==
  \E q \in ProjectIds : projects[q].user_id = u /\ projects[q].title = title

\* SELECT active FROM tokens WHERE id = $1 AND user_id = $2
isTokenActive(tokenId, userId) ==
  /\ tokenId \in DOMAIN tokens
  /\ tokens[tokenId].user_id = userId
  /\ tokens[tokenId].active

\* id of the next project_tokens row: SERIAL gives an id no row has and no
\* open transaction remembers; the smallest such id stands for it
NextBindingId ==
  LET used == {b.id : b \in project_tokens}
                \cup UNION {switches[r].snapshot : r \in Requests}
  IN CHOOSE m \in 1..(Cardinality(used) + 1) :
       /\ m \notin used
       /\ \A k \in 1..(m - 1) : k \in used

\* INSERT INTO project_tokens (project_id, token_id)
BindingRow(p, tokenId) == [id |-> NextBindingId, project_id |-> p, token_id |-> tokenId]

\* the statements of the transaction after the title check, as they commit
insertProject(u, title, agents, tokenId, space) ==
  /\ space \ ProjectIds # {}
  /\ LET p   == CHOOSE q \in space \ ProjectIds :
                  \A r \in space \ ProjectIds : q <= r
         n   == Len(agents)
         res == InsertMembers([rows |-> members, convs |-> conversations],
                              MemberList(agents, nextAgentId), p, nextAgentId, n)
     IN /\ projects' = [q \in ProjectIds \cup {p} |->
                          IF q = p
                          THEN [user_id |-> u, title |-> title, paused |-> TRUE,
                                message_limit |-> 0, last_activity_at |-> now]
                          ELSE projects[q]]
        /\ project_tokens' = IF tokenId = 0 THEN project_tokens
                             ELSE project_tokens \cup {BindingRow(p, tokenId)}
        /\ nextAgentId' = nextAgentId + n
        /\ members' = res.rows
        /\ conversations' = res.convs
        /\ nudges' = [q \in ProjectIds \cup {p} |-> IF q = p THEN 0 ELSE nudges[q]]
        /\ decr' = [q \in ProjectIds \cup {p} |->
                      IF q = p THEN [pc |-> "idle", newLimit |-> 0]
                      ELSE decr[q]]
        /\ lock' = [q \in ProjectIds \cup {p} |-> IF q = p THEN FALSE ELSE lock[q]]
        /\ recheck' = [q \in ProjectIds \cup {p} |-> IF q = p THEN FALSE ELSE recheck[q]]
        /\ decrements' = [q \in ProjectIds \cup {p} |-> IF q = p THEN 0 ELSE decrements[q]]

\* a create-project that runs alone: no other transaction between its title
\* check and its commit
createProjectWithMembers(u, title, agents) ==
  /\ ~TitleExists(u, title)
  /\ insertProject(u, title, agents, 0, ProjectIdSpace)
  /\ broadcastToProject(<<>>)
  /\ respond(<<>>)
  /\ UNCHANGED << messages, logs, now, run >>
  /\ UNCHANGED liveVars

CreateProject == \E u \in Owners, t \in Titles, a \in AgentInputs :
  createProjectWithMembers(u, t, a)

\* create-project followed statement by statement, so that two requests can
\* overlap.  The controller validates the token, the transaction checks the
\* title: a request that passes both has its transaction open.
CreateBegin ==
  \E r \in Requests, u \in Owners, t \in Titles, a \in AgentInputs, tok \in TokenInputs :
  /\ creates[r].pc = "idle"
  /\ IF (tok # 0 /\ ~isTokenActive(tok, u)) \/ TitleExists(u, t)
     THEN UNCHANGED creates
     ELSE creates' = [creates EXCEPT ![r] = [pc |-> "checked", u |-> u, title |-> t,
                                              agents |-> a, tokenId |-> tok]]
  /\ broadcastToProject(<<>>)
  /\ respond(<<>>)
  /\ UNCHANGED << projects, nextAgentId, members, conversations, messages, logs,
                  now, nudges, decr, brainVars, hubVars, memoryVars, tokenVars, project_tokens >>

\* the inserts of the transaction and its COMMIT
CreateCommit == \E r \in Requests :
  /\ creates[r].pc = "checked"
  /\ insertProject(creates[r].u, creates[r].title, creates[r].agents,
                   creates[r].tokenId, WideIdSpace)
  /\ creates' = [creates EXCEPT ![r] = IdleCreate]
  /\ broadcastToProject(<<>>)
  /\ respond(<<>>)
  /\ UNCHANGED << messages, logs, now, run, hubVars, memoryVars, tokenVars >>

\* a statement of the transaction fails: ROLLBACK
CreateRollback == \E r \in Requests :
  /\ creates[r].pc = "checked"
  /\ creates' = [creates EXCEPT ![r] = IdleCreate]
  /\ broadcastToProject(<<>>)
  /\ respond(<<>>)
  /\ UNCHANGED << projects, nextAgentId, members, conversations, messages, logs,
                  now, nudges, decr, brainVars, hubVars, memoryVars, tokenVars, project_tokens >>

\* ------------------------------------------------------- start conversation
\* the INSERT without the constraints of the conversations table
createConversation_Unchecked(u, p, receiverId) ==
  IF p \in ProjectIds
  THEN conversations' = Append(conversations, [project_id |-> p, sender_id |-> u,
                                               receiver_id |-> receiverId])
  ELSE UNCHANGED conversations

\* INSERT INTO conversations (project_id, sender_id, receiver_id) with the
\* caller as sender; the foreign key, CHECK (sender_id <= receiver_id) and
\* UNIQUE (project_id, sender_id, receiver_id) make the statement fail
createConversation(u, p, receiverId) ==
  IF /\ p \in ProjectIds
     /\ u <= receiverId
     /\ ~HasConversation(conversations, p, u, receiverId)
  THEN conversations' = Append(conversations, [project_id |-> p, sender_id |-> u,
                                               receiver_id |-> receiverId])
  ELSE UNCHANGED conversations

StartConversation == \E u \in Users, p \in WideIdSpace, receiverId \in ReceiverIds :
  /\ createConversation(u, p, receiverId)
  /\ broadcastToProject(<<>>)
  /\ respond(<<>>)
  /\ UNCHANGED << projects, nextAgentId, members, messages, logs, now, nudges,
                  decr, brainVars, liveVars, project_tokens >>

\* ------------------------------------------------------------ project status
\* updateProjectStatus with WHERE id = $1 only
updateProjectStatus_AnyUser(p, u, paused) ==
  IF paused = FALSE
  THEN /\ now < MaxClock
       /\ nudges[p] < MaxNudges
       /\ now' = now + 1
       /\ projects' = [projects EXCEPT ![p].paused = FALSE,
                                       ![p].last_activity_at = now + 1]
       /\ nudgeBrain(p)
       /\ broadcastToProject(<< Event("project_updated", p) >>)
  ELSE /\ projects' = [projects EXCEPT ![p].paused = TRUE]
       /\ broadcastToProject(<< Event("project_updated", p) >>)
       /\ UNCHANGED << nudges, now >>

updateProjectStatus(p, u, paused) ==
  IF projects[p].user_id # u
  THEN \* WHERE id = $1 AND user_id = $2 matches no row
       /\ broadcastToProject(<<>>)
       /\ UNCHANGED << projects, nudges, now >>
  ELSE IF paused = FALSE
  THEN /\ now < MaxClock
       /\ nudges[p] < MaxNudges
       /\ now' = now + 1
       /\ projects' = [projects EXCEPT ![p].paused = FALSE,
                                       ![p].last_activity_at = now + 1]
       /\ nudgeBrain(p)
       /\ broadcastToProject(<< Event("project_updated", p) >>)
  ELSE /\ projects' = [projects EXCEPT ![p].paused = TRUE]
       /\ broadcastToProject(<< Event("project_updated", p) >>)
       /\ UNCHANGED << nudges, now >>

\* POST /projects/:id/status and PATCH /settings/project/:id/pause
UpdateProjectStatus == \E p \in ProjectIds, u \in Users, paused \in BOOLEAN :
  /\ updateProjectStatus(p, u, paused)
  /\ respond(<<>>)
  /\ UNCHANGED << nextAgentId, members, conversations, messages, logs, decr, brainVars >>
  /\ UNCHANGED << liveVars, project_tokens >>

\* ------------------------------------------------------------- message limit
setMessageLimit(p, limit, u) ==
  IF projects[p].user_id = u
  THEN /\ projects' = [projects EXCEPT ![p].message_limit = limit]
       /\ broadcastToProject(<< Event("project_updated", p) >>)
  ELSE /\ broadcastToProject(<<>>)
       /\ UNCHANGED projects

\* PATCH /settings/project/:id/limit, body accepted by MessageLimitSchema
SetMessageLimit == \E p \in ProjectIds, u \in Users, limit \in 0..MaxLimit :
  /\ setMessageLimit(p, limit, u)
  /\ respond(<<>>)
  /\ UNCHANGED << nextAgentId, members, conversations, messages, logs, now,
                  nudges, decr, brainVars >>
  /\ UNCHANGED << liveVars, project_tokens >>

\* pauseProjectInternal without its INSERT INTO logs: the project is paused and
\* the change broadcast, but no warn row is written
pauseProjectInternal_NoLog(p, code) ==
  /\ Len(logs) < MaxLogs
  /\ projects' = [projects EXCEPT ![p].paused = TRUE]
  /\ logs' = logs
  /\ broadcastToProject(<< Event("project_updated", p) >>)

\* the two statements of pauseProjectInternal's transaction applied to a
\* store: UPDATE projects SET paused = true, INSERT INTO logs ... 'warn'
pausedStore(store, p, code) ==
  [store EXCEPT !.projects = [store.projects EXCEPT ![p].paused = TRUE],
                !.logs = Append(store.logs,
                                [project_id |-> p, level |-> "warn", code |-> code])]

\* pauseProjectInternal: one transaction, pause + warn log, then broadcast
pauseProjectInternal(p, code) ==
  /\ Len(logs) < MaxLogs
  /\ LET store == pausedStore([projects |-> projects, logs |-> logs,
                               messages |-> messages], p, code)
     IN /\ projects' = store.projects
        /\ logs' = store.logs
  /\ broadcastToProject(<< Event("project_updated", p) >>)

\* decrementMessageLimit, first statement: the UPDATE ... RETURNING commits and
\* the change is broadcast; with newLimit > 0 the call returns newLimit, else
\* it goes on to pauseProjectInternal
decrementUpdate(p) ==
  /\ decr[p].pc = "idle"
  /\ projects[p].message_limit > -MaxDebt
  /\ LET newLimit == projects[p].message_limit - 1
     IN /\ projects' = [projects EXCEPT ![p].message_limit = newLimit]
        /\ broadcastToProject(<< Event("project_updated", p) >>)
        /\ IF newLimit <= 0
           THEN /\ decr' = [decr EXCEPT ![p] = [pc |-> "pausing", newLimit |-> newLimit]]
                /\ respond(<<>>)
           ELSE /\ decr' = decr
                /\ respond(<< newLimit >>)

\* decrementMessageLimit, second transaction: pauseProjectInternal, then the
\* call returns newLimit
decrementPause(p) ==
  /\ decr[p].pc = "pausing"
  /\ pauseProjectInternal(p, "MESSAGE_LIMIT")
  /\ respond(<< decr[p].newLimit >>)
  /\ decr' = [decr EXCEPT ![p] = [pc |-> "idle", newLimit |-> 0]]

\* PUT /internal/projects/:projectId/decrement-limit
DecrementUpdate == \E p \in ProjectIds :
  /\ decrementUpdate(p)
  /\ UNCHANGED << nextAgentId, members, conversations, messages, logs, now, nudges, brainVars >>
  /\ UNCHANGED << liveVars, project_tokens >>

DecrementPause == \E p \in ProjectIds :
  /\ decrementPause(p)
  /\ UNCHANGED << nextAgentId, members, conversations, messages, now, nudges, brainVars >>
  /\ UNCHANGED << liveVars, project_tokens >>

\* PUT /internal/projects/:projectId/pause (watchdog)
PauseCodes == {"STALL"}

PauseProject == \E p \in ProjectIds, code \in PauseCodes :
  /\ pauseProjectInternal(p, code)
  /\ respond(<<>>)
  /\ UNCHANGED << nextAgentId, members, conversations, messages, now, nudges, decr, brainVars >>
  /\ UNCHANGED << liveVars, project_tokens >>

\* ------------------------------------------------------------------ messages
\* createMessage: one transaction inserting the row and bumping
\* last_activity_at; new_message is broadcast and, for a pending user message,
\* the brain is nudged.  data.status = NoStatus stands for an absent status.
NoStatus == "none"

\* createMessage without the call of nudgeBrain that follows the transaction
createMessage_NoNudge(data) ==
  LET status == IF data.status # NoStatus THEN data.status
                ELSE IF data.type = "user" THEN "pending" ELSE "sent"
      p      == data.projectId
      row    == [conversation_id |-> data.conversationId, project_id |-> p,
                 sender_id |-> data.senderId, receiver_id |-> data.receiverId,
                 type |-> data.type, status |-> status]
  IN /\ Len(messages) < MaxMsgs
     /\ now < MaxClock
     /\ messages' = Append(messages, row)
     /\ now' = now + 1
     /\ projects' = [projects EXCEPT ![p].last_activity_at = now + 1]
     /\ broadcastToProject(<< Event("new_message", p) >>)
     /\ UNCHANGED nudges

createMessage(data) ==
  LET status == IF data.status # NoStatus THEN data.status
                ELSE IF data.type = "user" THEN "pending" ELSE "sent"
      p      == data.projectId
      row    == [conversation_id |-> data.conversationId, project_id |-> p,
                 sender_id |-> data.senderId, receiver_id |-> data.receiverId,
                 type |-> data.type, status |-> status]
  IN /\ Len(messages) < MaxMsgs
     /\ now < MaxClock
     /\ messages' = Append(messages, row)
     /\ now' = now + 1
     /\ projects' = [projects EXCEPT ![p].last_activity_at = now + 1]
     /\ broadcastToProject(<< Event("new_message", p) >>)
     /\ IF status = "pending" /\ data.type = "user"
        THEN nudges[p] < MaxNudges /\ nudgeBrain(p)
        ELSE UNCHANGED nudges

\* sendMessage (POST /messages/:conversationId): System is the sender, the
\* receiver is resolved from the conversation row
sendMessage(u, c, type) ==
  LET conv       == conversations[c]
      receiverId == IF conv.sender_id = SystemAgentId THEN conv.receiver_id
                    ELSE conv.sender_id
  IN createMessage([conversationId |-> c, projectId |-> conv.project_id,
                    senderId |-> SystemAgentId, receiverId |-> receiverId,
                    type |-> IF type = NoType THEN "user" ELSE type,
                    status |-> NoStatus])

\* POST /messages/:conversationId by caller u with body.type = type
SendMessageRequest(u, c, type) ==
  /\ sendMessage(u, c, type)
  /\ respond(<<>>)
  /\ UNCHANGED << nextAgentId, members, conversations, logs, decr, brainVars >>
  /\ UNCHANGED << liveVars, project_tokens >>

SendMessage == \E u \in Users, c \in DOMAIN conversations, type \in MsgTypes \cup {NoType} :
  SendMessageRequest(u, c, type)

\* the sends that give the worker something to do: body.type absent or user
SendUserMessage == \E u \in Users, c \in DOMAIN conversations, type \in {"user", NoType} :
  SendMessageRequest(u, c, type)

\* createAgentMessage (POST /internal/messages): the body goes to createMessage
\* as it is.  The requests are the ones the worker issues: an assistant message,
\* pending, between the two agents of a conversation, in either direction.
createAgentMessage(c, senderId, receiverId) ==
  createMessage([conversationId |-> c, projectId |-> conversations[c].project_id,
                 senderId |-> senderId, receiverId |-> receiverId,
                 type |-> "assistant", status |-> "pending"])

CreateAgentMessage == \E c \in DOMAIN conversations, flip \in BOOLEAN :
  /\ LET a == conversations[c].sender_id
         b == conversations[c].receiver_id
     IN IF flip THEN createAgentMessage(c, b, a) ELSE createAgentMessage(c, a, b)
  /\ respond(<<>>)
  /\ UNCHANGED << nextAgentId, members, conversations, logs, decr, brainVars >>
  /\ UNCHANGED << liveVars, project_tokens >>

\* updateMessageStatus whose UPDATE writes nothing: the row keeps its status,
\* message_updated is still broadcast
updateMessageStatus_Dropped(id, status) ==
  /\ messages' = messages
  /\ broadcastToProject(<< [type |-> "message_updated",
                            projectId |-> messages[id].project_id] >>)

\* updateMessageStatus: UPDATE messages SET status = $1 WHERE id = $2
updateMessageStatus(id, status) ==
  /\ messages' = [messages EXCEPT ![id].status = status]
  /\ broadcastToProject(<< [type |-> "message_updated",
                            projectId |-> messages[id].project_id] >>)

\* PUT /internal/messages/:messageId/status
UpdateMessageStatus == \E id \in DOMAIN messages, status \in Statuses :
  /\ updateMessageStatus(id, status)
  /\ respond(<<>>)
  /\ UNCHANGED << projects, nextAgentId, members, conversations, logs, now,
                  nudges, decr, brainVars >>
  /\ UNCHANGED << liveVars, project_tokens >>

\* nudgeBrain's POST fails (the brain is unreachable): the error is logged to
\* the console and the nudge is gone
NudgeFails == \E p \in ProjectIds :
  /\ nudges[p] > 0
  /\ nudges' = [nudges EXCEPT ![p] = @ - 1]
  /\ broadcastToProject(<<>>)
  /\ respond(<<>>)
  /\ UNCHANGED << projects, nextAgentId, members, conversations, messages, logs,
                  now, decr, brainVars >>
  /\ UNCHANGED << liveVars, project_tokens >>

\* -------------------------------------------------------------------- logs
\* insertLog (POST /internal/logs)
insertLog(p, level, code) ==
  /\ Len(logs) < MaxLogs
  /\ logs' = Append(logs, [project_id |-> p, level |-> level, code |-> code])

\* ------------------------------------------------------- internal read routes
\* getPendingMessages: the pending messages of a project, oldest first
PendingQueue(p) ==
  SelectSeq([k \in 1..Len(messages) |-> k],
            LAMBDA id : messages[id].project_id = p /\ messages[id].status = "pending")

\* getProjectFlags answering paused = false whatever the row says
getProjectFlags_NeverPaused(p) ==
  [paused |-> FALSE, message_limit |-> projects[p].message_limit]

\* getProjectFlags
getProjectFlags(p) ==
  [paused |-> projects[p].paused, message_limit |-> projects[p].message_limit]

\* ------------------------------------------------------------ the turn worker
\* The brain is a separate service; its dispatcher and run loop follow the
\* turn-worker contract (per-project lock, re-check flag, bounded retries).
MaxRetries == 3

\* the agents the responding agent r may address: its can_message_ids and System
AllowedRecipients(p, r) ==
  ({SystemAgentId} \cup
   UNION {{m.can_message_ids[k] : k \in 1..Len(m.can_message_ids)} :
            m \in {x \in members : x.project_id = p /\ x.agent_id = r}}) \ {r}

\* the conversation of project p between agents a and b
ConversationOf(p, a, b) ==
  CHOOSE c \in DOMAIN conversations :
    /\ conversations[c].project_id = p
    /\ conversations[c].sender_id = Min(a, b)
    /\ conversations[c].receiver_id = Max(a, b)

\* a dispatcher that starts a run for every nudge, whether or not the lock of
\* p is held
dispatch_IgnoringLock(w, p) ==
  /\ lock' = [lock EXCEPT ![p] = TRUE]
  /\ run' = [run EXCEPT ![w] = [IdleRun EXCEPT !.pc = "fetch", !.project = p]]
  /\ UNCHANGED recheck

\* dispatcher: a nudge for p is taken by thread w; the run starts only if the
\* lock of p is free, otherwise the nudge is coalesced into the re-check flag
dispatch(w, p) ==
  IF lock[p]
  THEN /\ recheck' = [recheck EXCEPT ![p] = TRUE]
       /\ UNCHANGED << lock, run >>
  ELSE /\ lock' = [lock EXCEPT ![p] = TRUE]
       /\ run' = [run EXCEPT ![w] = [IdleRun EXCEPT !.pc = "fetch", !.project = p]]
       /\ UNCHANGED recheck

\* the request goes to the first free thread of the pool
FreeThread(w) ==
  /\ run[w].pc = "idle"
  /\ \A v \in Workers : run[v].pc = "idle" => w <= v

HandleNudge == \E w \in Workers, p \in ProjectIds :
  /\ FreeThread(w)
  /\ nudges[p] > 0
  /\ nudges' = [nudges EXCEPT ![p] = @ - 1]
  /\ dispatch(w, p)
  /\ broadcastToProject(<<>>)
  /\ respond(<<>>)
  /\ UNCHANGED << projects, nextAgentId, members, conversations, messages, logs,
                  now, decr, decrements >>
  /\ UNCHANGED << liveVars, project_tokens >>

\* a step of thread w that only moves its position
Goto(w, pc) == run' = [run EXCEPT ![w].pc = pc]

ReadOnly ==
  /\ broadcastToProject(<<>>)
  /\ respond(<<>>)
  /\ UNCHANGED << projects, nextAgentId, members, conversations, messages, logs,
                  now, nudges, decr, lock, recheck, decrements >>
  /\ UNCHANGED << liveVars, project_tokens >>

\* step 1: get-context, once per run
FetchContext == \E w \in Workers :
  /\ run[w].pc = "fetch"
  /\ Goto(w, "loop_guard")
  /\ ReadOnly

\* step 9, also on entry: project-flags; stop if paused or budget <= 0
loopGuard(w) ==
  LET flags == getProjectFlags(run[w].project)
  IN IF flags.paused \/ flags.message_limit <= 0
     THEN Goto(w, "done")
     ELSE Goto(w, "next_pending")

LoopGuard == \E w \in Workers :
  /\ run[w].pc = "loop_guard"
  /\ loopGuard(w)
  /\ ReadOnly

\* step 2: pending-queue; the oldest pending message is the trigger
NextPending == \E w \in Workers :
  /\ run[w].pc = "next_pending"
  /\ LET q == PendingQueue(run[w].project)
     IN IF q = << >>
        THEN Goto(w, "done")
        ELSE run' = [run EXCEPT ![w].pc = "call_llm", ![w].trigger = Head(q),
                                ![w].attempts = 0, ![w].recipient = 0]
  /\ ReadOnly

\* steps 4-6: one LLM attempt; the reply is valid (recipient allowed) or not
callLLM(w, valid, recipient) ==
  LET n == run[w].attempts + 1
  IN IF valid
     THEN run' = [run EXCEPT ![w].pc = "persist_sent", ![w].attempts = n,
                             ![w].recipient = recipient]
     ELSE IF n < MaxRetries
     THEN run' = [run EXCEPT ![w].pc = "retry", ![w].attempts = n]
     ELSE run' = [run EXCEPT ![w].pc = "fail_status", ![w].attempts = n]

CallLLM == \E w \in Workers :
  /\ run[w].pc = "call_llm"
  /\ \/ \E r \in AllowedRecipients(run[w].project, messages[run[w].trigger].receiver_id) :
          callLLM(w, TRUE, r)
     \/ callLLM(w, FALSE, 0)
  /\ ReadOnly

\* correction loop: project-flags is read at each retry; a pause ends the run
Retry == \E w \in Workers :
  /\ run[w].pc = "retry"
  /\ IF getProjectFlags(run[w].project).paused
     THEN Goto(w, "done")
     ELSE Goto(w, "call_llm")
  /\ ReadOnly

\* the last attempt failed: update-message-status(trigger, failed) ...
FailStatus == \E w \in Workers :
  /\ run[w].pc = "fail_status"
  /\ updateMessageStatus(run[w].trigger, "failed")
  /\ Goto(w, "fail_log")
  /\ respond(<<>>)
  /\ UNCHANGED << projects, nextAgentId, members, conversations, logs, now,
                  nudges, decr, lock, recheck, decrements >>
  /\ UNCHANGED << liveVars, project_tokens >>

\* ... then the error log, and back to step 2
FailLog == \E w \in Workers :
  /\ run[w].pc = "fail_log"
  /\ insertLog(run[w].project, "error", "FORMAT_INVALID")
  /\ Goto(w, "next_pending")
  /\ broadcastToProject(<<>>)
  /\ respond(<<>>)
  /\ UNCHANGED << projects, nextAgentId, members, conversations, messages, now,
                  nudges, decr, lock, recheck, decrements >>
  /\ UNCHANGED << liveVars, project_tokens >>

\* step 7: mark the trigger sent ...
PersistSent == \E w \in Workers :
  /\ run[w].pc = "persist_sent"
  /\ updateMessageStatus(run[w].trigger, "sent")
  /\ Goto(w, "persist_insert")
  /\ respond(<<>>)
  /\ UNCHANGED << projects, nextAgentId, members, conversations, logs, now,
                  nudges, decr, lock, recheck, decrements >>
  /\ UNCHANGED << liveVars, project_tokens >>

\* ... insert the reply ...
PersistInsert == \E w \in Workers :
  /\ run[w].pc = "persist_insert"
  /\ LET p == run[w].project
         r == messages[run[w].trigger].receiver_id
     IN createAgentMessage(ConversationOf(p, r, run[w].recipient), r, run[w].recipient)
  /\ Goto(w, "persist_decr")
  /\ respond(<<>>)
  /\ UNCHANGED << nextAgentId, members, conversations, logs, decr, lock, recheck,
                  decrements >>
  /\ UNCHANGED << liveVars, project_tokens >>

\* ... and decrement-budget (the count of the agent and the memory check that
\* follow write the summaries table only)
PersistDecr == \E w \in Workers :
  /\ run[w].pc = "persist_decr"
  /\ decrementUpdate(run[w].project)
  /\ decrements' = [decrements EXCEPT ![run[w].project] = @ + 1]
  /\ IF decr'[run[w].project].pc = "pausing"
     THEN Goto(w, "persist_pause")
     ELSE Goto(w, "loop_guard")
  /\ UNCHANGED << nextAgentId, members, conversations, messages, logs, now,
                  nudges, lock, recheck >>
  /\ UNCHANGED << liveVars, project_tokens >>

PersistPause == \E w \in Workers :
  /\ run[w].pc = "persist_pause"
  /\ decrementPause(run[w].project)
  /\ Goto(w, "loop_guard")
  /\ UNCHANGED << nextAgentId, members, conversations, messages, now, nudges,
                  lock, recheck, decrements >>
  /\ UNCHANGED << liveVars, project_tokens >>

\* DONE: a coalesced nudge makes the holder look again, otherwise the lock is
\* released
finish(w) ==
  LET p == run[w].project
  IN IF recheck[p]
     THEN /\ recheck' = [recheck EXCEPT ![p] = FALSE]
          /\ Goto(w, "loop_guard")
          /\ UNCHANGED lock
     ELSE /\ lock' = [lock EXCEPT ![p] = FALSE]
          /\ run' = [run EXCEPT ![w] = IdleRun]
          /\ UNCHANGED recheck

Done == \E w \in Workers :
  /\ run[w].pc = "done"
  /\ finish(w)
  /\ broadcastToProject(<<>>)
  /\ respond(<<>>)
  /\ UNCHANGED << projects, nextAgentId, members, conversations, messages, logs,
                  now, nudges, decr, decrements >>
  /\ UNCHANGED << liveVars, project_tokens >>

\* ------------------------------------------- demo user and snapshot project
\* env.js: DEMO_USER_ID, SNAPSHOT_PROJECT_ID, DEMO_PROJECT_LIMIT
demoUserId == 1

snapshotProjectId == 2

demoProjectLimit == 1

isDemoUser(userId) == userId = demoUserId

isSnapshotProject(userId, projectId) ==
  isDemoUser(userId) /\ projectId = snapshotProjectId

isLimitExceededForDemo(userId, newLimit) ==
  isDemoUser(userId) /\ newLimit > demoProjectLimit

\* what a handler throws: an object with a status, or a message key alone
\* (status 0)
Thrown(status, message) == [status |-> status, message |-> message]

\* resError(res, message, status = 500)
resError(message, status) == [status |-> status, error |-> message]

\* resSuccess(res, data, message, status = 200) and res.json(data)
resSuccess == [status |-> 200, error |-> ""]

\* tryCatch, the catch branch: resError(res, extractErrorMessage(err)), the
\* status of the thrown object is not passed on
tryCatch(err) == resError(err.message, 500)

\* the response of a handler wrapped in tryCatch, for a request on project p
respondTo(p, res) ==
  response' = [projectId |-> p, status |-> res.status, error |-> res.error]

\* the rows of the project the request names, none when it does not exist
OwnedBy(p, u) == p \in ProjectIds /\ projects[p].user_id = u

\* projectController.updateProjectStatus: the snapshot lock is tested for a
\* resume only
ToggleStatus == \E u \in {demoUserId}, p \in WideIdSpace, paused \in BOOLEAN :
  /\ IF ~paused /\ isSnapshotProject(u, p)
     THEN /\ respondTo(p, tryCatch(Thrown(403, "project.snapshotLocked")))
          /\ broadcastToProject(<<>>)
          /\ UNCHANGED << projects, nudges, now >>
     ELSE IF ~OwnedBy(p, u)
     THEN /\ respondTo(p, tryCatch(Thrown(404, "project.notFound")))
          /\ broadcastToProject(<<>>)
          /\ UNCHANGED << projects, nudges, now >>
     ELSE /\ updateProjectStatus(p, u, paused)
          /\ respondTo(p, resSuccess)
  /\ UNCHANGED << nextAgentId, members, conversations, messages, logs, decr, brainVars >>
  /\ UNCHANGED << liveVars, project_tokens >>

\* projectSettingsController.pauseProject
SettingsPause == \E u \in {demoUserId}, p \in WideIdSpace, paused \in BOOLEAN :
  /\ IF isSnapshotProject(u, p)
     THEN /\ respondTo(p, tryCatch(Thrown(403, "project.snapshotModified")))
          /\ broadcastToProject(<<>>)
          /\ UNCHANGED << projects, nudges, now >>
     ELSE IF ~OwnedBy(p, u)
     THEN /\ respondTo(p, tryCatch(Thrown(0, "project.notFound")))
          /\ broadcastToProject(<<>>)
          /\ UNCHANGED << projects, nudges, now >>
     ELSE /\ updateProjectStatus(p, u, paused)
          /\ respondTo(p, resSuccess)
  /\ UNCHANGED << nextAgentId, members, conversations, messages, logs, decr, brainVars >>
  /\ UNCHANGED << liveVars, project_tokens >>

\* projectSettingsController.setMessageLimit
SettingsLimit == \E u \in {demoUserId}, p \in WideIdSpace, limit \in 0..MaxLimit :
  /\ IF isSnapshotProject(u, p)
     THEN /\ respondTo(p, tryCatch(Thrown(403, "project.snapshotModified")))
          /\ broadcastToProject(<<>>)
          /\ UNCHANGED projects
     ELSE IF isLimitExceededForDemo(u, limit)
     THEN /\ respondTo(p, tryCatch(Thrown(403, "project.limitExceeded")))
          /\ broadcastToProject(<<>>)
          /\ UNCHANGED projects
     ELSE IF ~OwnedBy(p, u)
     THEN /\ respondTo(p, tryCatch(Thrown(0, "project.notFound")))
          /\ broadcastToProject(<<>>)
          /\ UNCHANGED projects
     ELSE /\ setMessageLimit(p, limit, u)
          /\ respondTo(p, resSuccess)
  /\ UNCHANGED << nextAgentId, members, conversations, messages, logs, now,
                  nudges, decr, brainVars >>
  /\ UNCHANGED << liveVars, project_tokens >>

\* logService.deleteLogsByProject: the logs of a project of the caller
deleteLogsByProject(p, u) ==
  logs' = IF OwnedBy(p, u)
          THEN SelectSeq(logs, LAMBDA row : row.project_id # p)
          ELSE logs

\* logController.deleteLogsByProject
ClearLogs == \E u \in {demoUserId}, p \in WideIdSpace :
  /\ IF isSnapshotProject(u, p)
     THEN /\ respondTo(p, tryCatch(Thrown(403, "Logs for snapshot projects cannot be cleared.")))
          /\ UNCHANGED logs
     ELSE /\ deleteLogsByProject(p, u)
          /\ respondTo(p, resSuccess)
  /\ broadcastToProject(<<>>)
  /\ UNCHANGED << projects, nextAgentId, members, conversations, messages, now,
                  nudges, decr, brainVars >>
  /\ UNCHANGED << liveVars, project_tokens >>

\* messageController.sendMessage: no test of the caller or of the project
DemoSend == \E u \in {demoUserId}, c \in DOMAIN conversations, type \in MsgTypes \cup {NoType} :
  /\ sendMessage(u, c, type)
  /\ respondTo(conversations[c].project_id, resSuccess)
  /\ UNCHANGED << nextAgentId, members, conversations, logs, decr, brainVars >>
  /\ UNCHANGED << liveVars, project_tokens >>

\* ------------------------------------------------------------ agent memory
\* the rows of agent_history_summaries for a pair
MemoryRows(p, a) ==
  {row \in agent_history_summaries : row.project_id = p /\ row.agent_id = a}

\* agents.id values in use: System and the ids handed out so far
AgentIds == 0..(nextAgentId - 1)

\* save-summary statements in progress for the pair
SavesOn(p, a) == {r \in Requests : saves[r].pc = "values" /\ saves[r].p = p /\ saves[r].a = a}

\* incrementMessageCount, ON CONFLICT DO UPDATE SET
MessageCountOnConflict(row) == row.message_count + 1

\* saveSummary, ON CONFLICT DO UPDATE SET summary_count
SummaryCountOnConflict_Excluded(row, excluded) == excluded.summary_count

SummaryCountOnConflict(row, excluded) == row.summary_count + 1

\* incrementMessageCount: one INSERT ... ON CONFLICT DO UPDATE ... RETURNING
\* message_count
incrementMessageCount(p, a) ==
  LET rows == MemoryRows(p, a)
      new  == IF rows = {}
              THEN {[id |-> Cardinality(agent_history_summaries) + 1,
                     project_id |-> p, agent_id |-> a, summary |-> "",
                     message_count |-> 1, summary_count |-> 0]}
              ELSE {[row EXCEPT !.message_count = MessageCountOnConflict(row)] : row \in rows}
  IN /\ agent_history_summaries' = (agent_history_summaries \ rows) \cup new
     /\ response' = << (CHOOSE row \in new : TRUE).message_count >>

\* POST /internal/agents/:projectId/:agentId/increment-count
IncrementAgentMessageCount == \E p \in ProjectIds, a \in AgentIds :
  /\ \A row \in MemoryRows(p, a) : row.message_count < MaxCount
  /\ incrementMessageCount(p, a)
  /\ memoryCalls' = [memoryCalls EXCEPT ![<<p, a>>].increments = @ + 1]
  /\ broadcastToProject(<<>>)
  /\ UNCHANGED << projects, nextAgentId, members, conversations, messages, logs,
                  now, nudges, decr, brainVars, hubVars, creates, tokenVars,
                  project_tokens, saves >>

\* saveSummary, the VALUES list: the sub-select reads summary_count in the
\* statement's snapshot.  A request without agentId, or with agentId 0, throws.
SaveValues == \E r \in Requests, p \in ProjectIds, a \in AgentIds, text \in Summaries :
  /\ saves[r].pc = "idle"
  /\ IF a = 0
     THEN /\ response' = << "Missing required summary fields" >>
          /\ UNCHANGED saves
     ELSE /\ Cardinality(SavesOn(p, a)) < MaxCount
          /\ \A row \in MemoryRows(p, a) :
               row.summary_count + Cardinality(SavesOn(p, a)) < MaxCount
          /\ LET rows == MemoryRows(p, a)
                 read == IF rows = {} THEN 0   \* COALESCE(NULL, 0)
                         ELSE (CHOOSE row \in rows : TRUE).summary_count
             IN saves' = [saves EXCEPT ![r] = [pc |-> "values", p |-> p, a |-> a,
                                               summary |-> text,
                                               summary_count |-> read + 1]]
          /\ response' = << >>
  /\ broadcastToProject(<<>>)
  /\ UNCHANGED << projects, nextAgentId, members, conversations, messages, logs,
                  now, nudges, decr, brainVars, hubVars, creates, tokenVars,
                  project_tokens, agent_history_summaries, memoryCalls >>

\* saveSummary, the insert or the update of the row in conflict, RETURNING id
SaveUpsert == \E r \in Requests :
  /\ saves[r].pc = "values"
  /\ LET excluded == saves[r]
         rows == MemoryRows(excluded.p, excluded.a)
         new  == IF rows = {}
                 THEN {[id |-> Cardinality(agent_history_summaries) + 1,
                        project_id |-> excluded.p, agent_id |-> excluded.a,
                        summary |-> excluded.summary, message_count |-> 0,
                        summary_count |-> excluded.summary_count]}
                 ELSE {[row EXCEPT !.summary = excluded.summary,
                                   !.message_count = 0,
                                   !.summary_count = SummaryCountOnConflict(row, excluded)]
                         : row \in rows}
     IN /\ agent_history_summaries' = (agent_history_summaries \ rows) \cup new
        /\ response' = << (CHOOSE row \in new : TRUE).id >>
        /\ memoryCalls' = [memoryCalls EXCEPT ![<<excluded.p, excluded.a>>] =
                             [increments |-> 0, summaries |-> @.summaries + 1]]
  /\ saves' = [saves EXCEPT ![r] = IdleSave]
  /\ broadcastToProject(<<>>)
  /\ UNCHANGED << projects, nextAgentId, members, conversations, messages, logs,
                  now, nudges, decr, brainVars, hubVars, creates, tokenVars,
                  project_tokens >>

\* ------------------------------------------------------------------- tokens
\* change-token and delete-token, statement by statement.  A statement sees
\* what was committed when it started (READ COMMITTED); a row deleted by an
\* open transaction is locked until that transaction ends.

TokenIds == {1, 2, 3}

\* ids of the rows of project p
BindingsOf(p) == {b.id : b \in {x \in project_tokens : x.project_id = p}}

\* rows that an open change-token transaction other than r has deleted
LockedRows(r) == UNION {switches[q].deleted : q \in Requests \ {r}}

\* switchProjectToken, the two SELECTs: the project and the token are the
\* caller's; otherwise the transaction throws and nothing is written
SwitchBegin == \E r \in Requests, p \in ProjectIds, u \in Users, t \in TokenIds :
  /\ switches[r].pc = "idle"
  /\ IF projects[p].user_id = u /\ t \in DOMAIN tokens /\ tokens[t].user_id = u
     THEN switches' = [switches EXCEPT ![r] =
                         [pc |-> "checked", p |-> p, tokenId |-> t, u |-> u,
                          snapshot |-> {}, deleted |-> {}]]
     ELSE UNCHANGED switches
  /\ broadcastToProject(<<>>)
  /\ respond(<<>>)
  /\ UNCHANGED << tokens, deletion, project_tokens, hubVars, memoryVars, creates, projects,
                  nextAgentId, members, conversations, messages, logs, now,
                  nudges, decr, brainVars >>

\* DELETE FROM project_tokens WHERE project_id = $1 starts: its snapshot
SwitchDeleteStart == \E r \in Requests :
  /\ switches[r].pc = "checked"
  /\ switches' = [switches EXCEPT ![r].pc = "deleting",
                                  ![r].snapshot = BindingsOf(switches[r].p)]
  /\ broadcastToProject(<<>>)
  /\ respond(<<>>)
  /\ UNCHANGED << tokens, deletion, project_tokens, hubVars, memoryVars, creates, projects,
                  nextAgentId, members, conversations, messages, logs, now,
                  nudges, decr, brainVars >>

\* the DELETE ends once no row of its snapshot is locked: it deletes the rows
\* of the snapshot that are still there
SwitchDeleteEnd == \E r \in Requests :
  /\ switches[r].pc = "deleting"
  /\ switches[r].snapshot \cap LockedRows(r) = {}
  /\ switches' = [switches EXCEPT ![r].pc = "deleted",
                                  ![r].deleted = switches[r].snapshot
                                                   \cap BindingsOf(switches[r].p)]
  /\ broadcastToProject(<<>>)
  /\ respond(<<>>)
  /\ UNCHANGED << tokens, deletion, project_tokens, hubVars, memoryVars, creates, projects,
                  nextAgentId, members, conversations, messages, logs, now,
                  nudges, decr, brainVars >>

\* INSERT INTO project_tokens: the foreign key wants the token row, and holds
\* it until the transaction ends; without the row the transaction rolls back
SwitchInsert == \E r \in Requests :
  /\ switches[r].pc = "deleted"
  /\ switches' = [switches EXCEPT ![r] =
                    IF switches[r].tokenId \in DOMAIN tokens
                    THEN [switches[r] EXCEPT !.pc = "inserted"]
                    ELSE IdleSwitch]
  /\ broadcastToProject(<<>>)
  /\ respond(<<>>)
  /\ UNCHANGED << tokens, deletion, project_tokens, hubVars, memoryVars, creates, projects,
                  nextAgentId, members, conversations, messages, logs, now,
                  nudges, decr, brainVars >>

\* COMMIT of switchProjectToken
SwitchCommit == \E r \in Requests :
  /\ switches[r].pc = "inserted"
  /\ project_tokens' =
       {b \in project_tokens : b.id \notin switches[r].deleted}
         \cup {BindingRow(switches[r].p, switches[r].tokenId)}
  /\ switches' = [switches EXCEPT ![r] = IdleSwitch]
  /\ broadcastToProject(<<>>)
  /\ respond(<<>>)
  /\ UNCHANGED << tokens, deletion, hubVars, memoryVars, creates, projects,
                  nextAgentId, members, conversations, messages, logs, now,
                  nudges, decr, brainVars >>

\* deleteToken, first statement: SELECT 1 FROM project_tokens WHERE token_id;
\* with a row the call throws
DeleteCheck == \E u \in Users, t \in TokenIds :
  /\ deletion.pc = "idle"
  /\ IF \E b \in project_tokens : b.token_id = t
     THEN UNCHANGED deletion
     ELSE deletion' = [pc |-> "checked", tokenId |-> t, u |-> u]
  /\ broadcastToProject(<<>>)
  /\ respond(<<>>)
  /\ UNCHANGED << tokens, switches, project_tokens, hubVars, memoryVars, creates, projects,
                  nextAgentId, members, conversations, messages, logs, now,
                  nudges, decr, brainVars >>

\* deleteToken, second statement: DELETE FROM tokens WHERE id AND user_id,
\* with ON DELETE SET NULL on the rows of project_tokens that point at it.
\* It waits for the transactions that hold the token row or a pointing row.
DeleteRow ==
  LET t == deletion.tokenId
  IN /\ deletion.pc = "checked"
     /\ \A r \in Requests :
          /\ ~(switches[r].pc = "inserted" /\ switches[r].tokenId = t)
          /\ \A b \in project_tokens : b.id \in switches[r].deleted => b.token_id # t
     /\ IF t \in DOMAIN tokens /\ tokens[t].user_id = deletion.u
        THEN /\ tokens' = [x \in DOMAIN tokens \ {t} |-> tokens[x]]
             /\ project_tokens' = {IF b.token_id = t THEN [b EXCEPT !.token_id = 0]
                                   ELSE b : b \in project_tokens}
        ELSE UNCHANGED << tokens, project_tokens >>
     /\ deletion' = IdleDeletion
     /\ broadcastToProject(<<>>)
     /\ respond(<<>>)
     /\ UNCHANGED << switches, hubVars, memoryVars, creates, projects,
                     nextAgentId, members, conversations, messages, logs, now,
                     nudges, decr, brainVars >>

\* ---------------------------------------------------------- live-update hub
\* The hub of webSocketService.js and the order in which the writing services
\* commit and publish.  A write is followed from its first statement to its
\* publish; its position in writes is the id of the event it publishes.

\* services that call broadcastToProject inside their db.tx callback, before
\* the transaction commits (createMessage stands for updateProjectStatus and
\* pauseProjectInternal too: all three update the projects row first)
InTxKinds == {"createMessage"}

\* services that run one autocommit statement and publish afterwards
\* (setMessageLimit stands for decrementMessageLimit too: both update the
\* projects row; updateMessageStatus updates the messages row only)
AfterCommitKinds == {"setMessageLimit", "updateMessageStatus"}

\* kinds whose statement takes the row lock of the projects row
LocksProjectRow == {"createMessage", "setMessageLimit"}

EventOf(id) == [id |-> id, projectId |-> writes[id].project]

\* projects row of p is locked by a transaction that has not finished
RowLocked(p) == \E i \in 1..Len(writes) : writes[i].project = p /\ writes[i].pc = "open"

\* entries of the clients map for project p
projectClients(p) == {ws \in Sockets : joined[ws] = p}

\* broadcastToProject of the hub: queue when the clients map has no entry for
\* the project, else send to the entries whose socket is OPEN
broadcastToClients(p, e) ==
  IF projectClients(p) = {}
  THEN /\ pendingMessages' = [pendingMessages EXCEPT ![p] = Append(@, e)]
       /\ UNCHANGED received
  ELSE /\ received' = [ws \in Sockets |->
                         IF ws \in projectClients(p) /\ sock[ws] = "open"
                         THEN Append(received[ws], e) ELSE received[ws]]
       /\ UNCHANGED pendingMessages

\* everything but the hub, the writes and the record of the publish
storeVars == << projects, nextAgentId, members, conversations, messages, logs,
                now, nudges, response, decr, lock, recheck, run, decrements,
                creates, tokenVars, project_tokens, memoryVars >>

\* wss.on('connection')
Connect == \E ws \in Sockets :
  /\ sock[ws] = "closed"
  /\ sock' = [sock EXCEPT ![ws] = "open"]
  /\ emitted' = << >>
  /\ UNCHANGED << joined, pendingMessages, received, writes, commitLog, storeVars >>

\* ws.on('message') with a join: enter the clients map, flush the queue
Join == \E ws \in Sockets, p \in ProjectIdSpace :
  /\ sock[ws] = "open"
  /\ joined' = [joined EXCEPT ![ws] = p]
  /\ received' = [received EXCEPT ![ws] = @ \o pendingMessages[p]]
  /\ pendingMessages' = [pendingMessages EXCEPT ![p] = << >>]
  /\ emitted' = << >>
  /\ UNCHANGED << sock, writes, commitLog, storeVars >>

\* the close handshake starts: readyState is CLOSING, the entry stays
StartClose == \E ws \in Sockets :
  /\ sock[ws] = "open"
  /\ sock' = [sock EXCEPT ![ws] = "closing"]
  /\ emitted' = << >>
  /\ UNCHANGED << joined, pendingMessages, received, writes, commitLog, storeVars >>

\* ws.on('close'): the entry leaves the clients map
CloseSocket == \E ws \in Sockets :
  /\ sock[ws] = "closing"
  /\ sock' = [sock EXCEPT ![ws] = "closed"]
  /\ joined' = [joined EXCEPT ![ws] = 0]
  /\ emitted' = << >>
  /\ UNCHANGED << pendingMessages, received, writes, commitLog, storeVars >>

\* body of a db.tx callback: statements, then the publish, commit still ahead
TxBody == \E kind \in InTxKinds, p \in ProjectIdSpace :
  /\ Len(writes) < MaxWrites
  /\ ~RowLocked(p)
  /\ writes' = Append(writes, [kind |-> kind, project |-> p, pc |-> "open"])
  /\ LET e == [id |-> Len(writes) + 1, projectId |-> p]
     IN /\ broadcastToClients(p, e)
        /\ emitted' = << e >>
  /\ UNCHANGED << sock, joined, commitLog, storeVars >>

\* COMMIT of a db.tx
TxCommit == \E i \in 1..Len(writes) :
  /\ writes[i].pc = "open"
  /\ writes' = [writes EXCEPT ![i].pc = "done"]
  /\ commitLog' = Append(commitLog, i)
  /\ emitted' = << >>
  /\ UNCHANGED << sock, joined, pendingMessages, received, storeVars >>

\* ROLLBACK of a db.tx: the connection drops or COMMIT fails
TxRollback == \E i \in 1..Len(writes) :
  /\ writes[i].pc = "open"
  /\ writes' = [writes EXCEPT ![i].pc = "rolledback"]
  /\ emitted' = << >>
  /\ UNCHANGED << sock, joined, pendingMessages, received, commitLog, storeVars >>

\* the single statement of an after-commit service, committed as it returns
AutoCommit == \E kind \in AfterCommitKinds, p \in ProjectIdSpace :
  /\ Len(writes) < MaxWrites
  /\ kind \in LocksProjectRow => ~RowLocked(p)
  /\ writes' = Append(writes, [kind |-> kind, project |-> p, pc |-> "committed"])
  /\ commitLog' = Append(commitLog, Len(writes) + 1)
  /\ emitted' = << >>
  /\ UNCHANGED << sock, joined, pendingMessages, received, storeVars >>

\* the publish that follows the statement of an after-commit service
BroadcastAfter == \E i \in 1..Len(writes) :
  /\ writes[i].pc = "committed"
  /\ writes' = [writes EXCEPT ![i].pc = "done"]
  /\ broadcastToClients(writes[i].project, EventOf(i))
  /\ emitted' = << EventOf(i) >>
  /\ UNCHANGED << sock, joined, commitLog, storeVars >>

\* ------------------------------------------- hub keys and connection users
\* A project id reaches the hub as a number (JSON body, Number(id), a column
\* of a row) or as a string (req.params); the clients filter compares with
\* === and pendingMessages is a Map, so 1 and "1" are different keys.
KeyNumber(p) == [type |-> "number", id |-> p]

KeyString(p) == [type |-> "string", id |-> p]

NoKey == [type |-> "none", id |-> 0]

HubKeys == {KeyNumber(p) : p \in ProjectIdSpace} \cup {KeyString(p) : p \in ProjectIdSpace}

\* request.user.id of the connection, from the cookie verified on upgrade
SocketUser == [ws \in Sockets |-> ws]

\* entries of the clients map with c.projectId === key
keyClients(key) == {ws \in Sockets : joined[ws] = key}

\* broadcastToProject(projectId, message) of the hub, projectId as passed
broadcastToKey(key, e) ==
  IF keyClients(key) = {}
  THEN /\ pendingMessages' = [pendingMessages EXCEPT ![key] = Append(@, e)]
       /\ UNCHANGED received
  ELSE /\ received' = [ws \in Sockets |->
                         IF ws \in keyClients(key) /\ sock[ws] = "open"
                         THEN Append(received[ws], e) ELSE received[ws]]
       /\ UNCHANGED pendingMessages

\* the events a service handed over in this step, published under key
publishEmitted(key) ==
  IF emitted' = << >>
  THEN UNCHANGED << pendingMessages, received, writes >>
  ELSE /\ Len(writes) < MaxWrites
       /\ broadcastToKey(key, emitted'[1])
       /\ writes' = Append(writes, [kind |-> emitted'[1].type,
                                    project |-> key.id, pc |-> "done"])

\* what a handler of the API leaves alone besides the rows it writes
hubFrame == << nextAgentId, members, conversations, messages, brainVars, sock,
               joined, commitLog, creates, tokenVars, project_tokens, memoryVars >>

\* server.on('upgrade') and wss.on('connection'): the token names the user
HubConnect == \E ws \in Sockets :
  /\ sock[ws] = "closed"
  /\ sock' = [sock EXCEPT ![ws] = "open"]
  /\ emitted' = << >>
  /\ UNCHANGED << joined, pendingMessages, received, writes, commitLog, storeVars >>

\* ws.on('message') with a join frame: data.projectId is taken as sent, the
\* user of the connection is stored and not compared with anything
HubJoin == \E ws \in Sockets, key \in HubKeys :
  /\ sock[ws] = "open"
  /\ joined[ws] # key
  /\ joined' = [joined EXCEPT ![ws] = key]
  /\ received' = [received EXCEPT ![ws] = @ \o pendingMessages[key]]
  /\ pendingMessages' = [pendingMessages EXCEPT ![key] = << >>]
  /\ emitted' = << >>
  /\ UNCHANGED << sock, writes, commitLog, storeVars >>

\* ws.on('close')
HubClose == \E ws \in Sockets :
  /\ sock[ws] = "open"
  /\ sock' = [sock EXCEPT ![ws] = "closed"]
  /\ joined' = [joined EXCEPT ![ws] = NoKey]
  /\ emitted' = << >>
  /\ UNCHANGED << pendingMessages, received, writes, commitLog, storeVars >>

\* POST /projects/:id/status: projectController.updateProjectStatus hands
\* req.params.id, a string, to the service, which broadcasts under it
StatusToggle == \E p \in ProjectIds, u \in Users, paused \in BOOLEAN :
  /\ updateProjectStatus(p, u, paused)
  /\ publishEmitted(KeyString(p))
  /\ respond(<<>>)
  /\ UNCHANGED << logs, decr, hubFrame >>

\* PATCH /settings/project/:id/pause: the controller passes Number(id)
SettingsToggle == \E p \in ProjectIds, u \in Users, paused \in BOOLEAN :
  /\ updateProjectStatus(p, u, paused)
  /\ publishEmitted(KeyNumber(p))
  /\ respond(<<>>)
  /\ UNCHANGED << logs, decr, hubFrame >>

\* PUT /internal/projects/:projectId/pause: req.params.projectId as it is
InternalPause == \E p \in ProjectIds, code \in PauseCodes :
  /\ pauseProjectInternal(p, code)
  /\ publishEmitted(KeyString(p))
  /\ respond(<<>>)
  /\ UNCHANGED << now, nudges, decr, hubFrame >>

\* PUT /internal/projects/:projectId/decrement-limit, the UPDATE and its
\* broadcastToProject(Number(projectId), ...)
DecrementBroadcast == \E p \in ProjectIds :
  /\ decrementUpdate(p)
  /\ publishEmitted(KeyNumber(p))
  /\ UNCHANGED << logs, now, nudges, hubFrame >>

\* ... and, the budget exhausted, pauseProjectInternal(projectId, ...) with
\* the string the route was called with
ExhaustedPause == \E p \in ProjectIds :
  /\ decrementPause(p)
  /\ publishEmitted(KeyString(p))
  /\ UNCHANGED << now, nudges, hubFrame >>

\* ------------------------------------------------ nudges and their commits
\* createMessage and updateProjectStatus call nudgeBrain inside the db.tx
\* callback: the POST to the brain leaves before COMMIT is sent.  Followed in
\* two steps, the callback and the commit, with the brain free to act between.

\* what a two-step request leaves alone besides its own rows
nudgeFrame == << nextAgentId, members, conversations, logs, decr, brainVars,
                 sock, joined, pendingMessages, received, creates, tokenVars,
                 project_tokens, memoryVars >>

\* sendMessage, the db.tx callback of createMessage for a user message: the
\* INSERT and the UPDATE of the projects row are not committed yet, the
\* broadcast and the nudge are out
SendBody == \E u \in Users, c \in DOMAIN conversations :
  LET conv       == conversations[c]
      p          == conv.project_id
      receiverId == IF conv.sender_id = SystemAgentId THEN conv.receiver_id
                    ELSE conv.sender_id
      row        == [conversation_id |-> c, project_id |-> p,
                     sender_id |-> SystemAgentId, receiver_id |-> receiverId,
                     type |-> "user", status |-> "pending"]
  IN /\ Len(writes) < MaxWrites
     /\ ~RowLocked(p)
     /\ nudges[p] < MaxNudges
     /\ nudgeBrain(p)
     /\ broadcastToProject(<< Event("new_message", p) >>)
     /\ writes' = Append(writes, [kind |-> "createMessage", project |-> p,
                                  pc |-> "open", row |-> row])
     /\ respond(<<>>)
     /\ UNCHANGED << projects, messages, now, commitLog, nudgeFrame >>

\* COMMIT of createMessage's transaction: the row and last_activity_at become
\* visible to the other connections
SendCommit == \E i \in 1..Len(writes) :
  /\ writes[i].pc = "open"
  /\ writes[i].kind = "createMessage"
  /\ Len(messages) < MaxMsgs
  /\ now < MaxClock
  /\ messages' = Append(messages, writes[i].row)
  /\ now' = now + 1
  /\ projects' = [projects EXCEPT ![writes[i].project].last_activity_at = now + 1]
  /\ writes' = [writes EXCEPT ![i].pc = "done"]
  /\ commitLog' = Append(commitLog, i)
  /\ broadcastToProject(<<>>)
  /\ respond(<<>>)
  /\ UNCHANGED << nudges, nudgeFrame >>

\* updateProjectStatus(projectId, userId, false), the db.tx callback: the
\* UPDATE matched the caller's row, the nudge and the broadcast are out
ResumeBody == \E p \in ProjectIds, u \in Users :
  /\ projects[p].user_id = u
  /\ Len(writes) < MaxWrites
  /\ ~RowLocked(p)
  /\ nudges[p] < MaxNudges
  /\ nudgeBrain(p)
  /\ broadcastToProject(<< Event("project_updated", p) >>)
  /\ writes' = Append(writes, [kind |-> "updateProjectStatus", project |-> p,
                               pc |-> "open", row |-> << >>])
  /\ respond(<<>>)
  /\ UNCHANGED << projects, messages, now, commitLog, nudgeFrame >>

\* COMMIT of the resume
ResumeCommit == \E i \in 1..Len(writes) :
  /\ writes[i].pc = "open"
  /\ writes[i].kind = "updateProjectStatus"
  /\ now < MaxClock
  /\ now' = now + 1
  /\ projects' = [projects EXCEPT ![writes[i].project].paused = FALSE,
                                  ![writes[i].project].last_activity_at = now + 1]
  /\ writes' = [writes EXCEPT ![i].pc = "done"]
  /\ commitLog' = Append(commitLog, i)
  /\ broadcastToProject(<<>>)
  /\ respond(<<>>)
  /\ UNCHANGED << messages, nudges, nudgeFrame >>

\* updateProjectStatus(projectId, userId, true): no nudge, one step
PauseByOwner == \E p \in ProjectIds, u \in Users :
  /\ projects[p].user_id = u
  /\ ~RowLocked(p)
  /\ updateProjectStatus(p, u, TRUE)
  /\ respond(<<>>)
  /\ UNCHANGED << messages, writes, commitLog, nudgeFrame >>

\* --------------------------------------------------------------------- init
Init ==
  /\ projects = << >>
  /\ nextAgentId = 1
  /\ members = {}
  /\ conversations = << >>
  /\ messages = << >>
  /\ logs = << >>
  /\ now = 0
  /\ nudges = << >>
  /\ emitted = << >>
  /\ response = << >>
  /\ decr = << >>
  /\ lock = << >>
  /\ recheck = << >>
  /\ run = [w \in Workers |-> IdleRun]
  /\ decrements = << >>
  /\ sock = [ws \in Sockets |-> "closed"]
  /\ joined = [ws \in Sockets |-> 0]
  /\ pendingMessages = [p \in ProjectIdSpace |-> << >>]
  /\ received = [ws \in Sockets |-> << >>]
  /\ writes = << >>
  /\ commitLog = << >>
  /\ creates = [r \in Requests |-> IdleCreate]
  /\ tokens = InitTokens
  /\ project_tokens = {}
  /\ switches = [r \in Requests |-> IdleSwitch]
  /\ deletion = IdleDeletion
  /\ agent_history_summaries = {}
  /\ saves = [r \in Requests |-> IdleSave]
  /\ memoryCalls = [pair \in ProjectIdSpace \X AgentIdSpace |-> NoCalls]

\* The budget and pause operations of the API
NextBudget ==
  \/ CreateProject
  \/ UpdateProjectStatus
  \/ SetMessageLimit
  \/ DecrementUpdate
  \/ DecrementPause
  \/ PauseProject

SpecBudget == Init /\ [][NextBudget]_vars

\* The message operations of the API
NextMessages ==
  \/ CreateProject
  \/ UpdateProjectStatus
  \/ SendMessage
  \/ CreateAgentMessage
  \/ UpdateMessageStatus
  \/ NudgeFails

SpecMessages == Init /\ [][NextMessages]_vars

\* The owner's operations and the brain's runs
NextWorker ==
  \/ CreateProject
  \/ UpdateProjectStatus
  \/ SetMessageLimit
  \/ SendUserMessage
  \/ HandleNudge
  \/ FetchContext
  \/ LoopGuard
  \/ NextPending
  \/ CallLLM
  \/ Retry
  \/ FailStatus
  \/ FailLog
  \/ PersistSent
  \/ PersistInsert
  \/ PersistDecr
  \/ PersistPause
  \/ Done

SpecWorker == Init /\ [][NextWorker]_vars

\* the steps of a run; a thread that can take one eventually does
WorkerStep ==
  \/ FetchContext \/ LoopGuard \/ NextPending \/ CallLLM \/ Retry
  \/ FailStatus \/ FailLog \/ PersistSent \/ PersistInsert \/ PersistDecr
  \/ PersistPause \/ Done

SpecWorkerFair == SpecWorker /\ WF_vars(WorkerStep)

\* the hub with writes of the three commit/publish shapes
NextLive ==
  \/ Connect
  \/ Join
  \/ StartClose
  \/ CloseSocket
  \/ TxBody
  \/ TxCommit
  \/ TxRollback
  \/ AutoCommit
  \/ BroadcastAfter

SpecLive == Init /\ [][NextLive]_vars

\* projects and conversations created by overlapping requests
NextProjects ==
  \/ CreateBegin
  \/ CreateCommit
  \/ CreateRollback
  \/ StartConversation

SpecProjects == Init /\ [][NextProjects]_vars

\* change-token and delete-token requests that overlap
NextTokens ==
  \/ CreateProject
  \/ SwitchBegin
  \/ SwitchDeleteStart
  \/ SwitchDeleteEnd
  \/ SwitchInsert
  \/ SwitchCommit
  \/ DeleteCheck
  \/ DeleteRow

SpecTokens == Init /\ [][NextTokens]_vars

\* the deployment with the snapshot project in place: a project of the demo
\* user with one agent, one conversation and one log row, paused or not
InitSnapshot ==
  /\ \E paused \in BOOLEAN, limit \in 0..MaxLimit :
       projects = [q \in {snapshotProjectId} |->
                     [user_id |-> demoUserId, title |-> "t1", paused |-> paused,
                      message_limit |-> limit, last_activity_at |-> 0]]
  /\ nextAgentId = 2
  /\ members = {[project_id |-> snapshotProjectId, agent_id |-> 1,
                 can_message_ids |-> << >>],
                [project_id |-> snapshotProjectId, agent_id |-> SystemAgentId,
                 can_message_ids |-> << 1 >>]}
  /\ conversations = << [project_id |-> snapshotProjectId,
                         sender_id |-> SystemAgentId, receiver_id |-> 1] >>
  /\ messages = << >>
  /\ logs = << [project_id |-> snapshotProjectId, level |-> "warn", code |-> "STALL"] >>
  /\ now = 0
  /\ nudges = [q \in {snapshotProjectId} |-> 0]
  /\ emitted = << >>
  /\ response = << >>
  /\ decr = [q \in {snapshotProjectId} |-> [pc |-> "idle", newLimit |-> 0]]
  /\ lock = [q \in {snapshotProjectId} |-> FALSE]
  /\ recheck = [q \in {snapshotProjectId} |-> FALSE]
  /\ run = [w \in Workers |-> IdleRun]
  /\ decrements = [q \in {snapshotProjectId} |-> 0]
  /\ sock = [ws \in Sockets |-> "closed"]
  /\ joined = [ws \in Sockets |-> 0]
  /\ pendingMessages = [p \in ProjectIdSpace |-> << >>]
  /\ received = [ws \in Sockets |-> << >>]
  /\ writes = << >>
  /\ commitLog = << >>
  /\ creates = [r \in Requests |-> IdleCreate]
  /\ tokens = InitTokens
  /\ project_tokens = {}
  /\ switches = [r \in Requests |-> IdleSwitch]
  /\ deletion = IdleDeletion
  /\ agent_history_summaries = {}
  /\ saves = [r \in Requests |-> IdleSave]
  /\ memoryCalls = [pair \in ProjectIdSpace \X AgentIdSpace |-> NoCalls]

\* the demo user's requests
NextSnapshot ==
  \/ ToggleStatus
  \/ SettingsPause
  \/ SettingsLimit
  \/ ClearLogs
  \/ DemoSend

SpecSnapshot == InitSnapshot /\ [][NextSnapshot]_vars

\* increment-count and save-summary calls of the brain that overlap
NextMemory ==
  \/ CreateProject
  \/ IncrementAgentMessageCount
  \/ SaveValues
  \/ SaveUpsert

SpecMemory == Init /\ [][NextMemory]_vars

\* a deployment with one project of user 1 and no connection
InitHub ==
  /\ \E paused \in BOOLEAN, limit \in 0..MaxLimit :
       projects = << [user_id |-> 1, title |-> "t1", paused |-> paused,
                      message_limit |-> limit, last_activity_at |-> 0] >>
  /\ nextAgentId = 2
  /\ members = {[project_id |-> 1, agent_id |-> 1, can_message_ids |-> << >>],
                [project_id |-> 1, agent_id |-> SystemAgentId,
                 can_message_ids |-> << 1 >>]}
  /\ conversations = << [project_id |-> 1, sender_id |-> SystemAgentId,
                         receiver_id |-> 1] >>
  /\ messages = << >>
  /\ logs = << >>
  /\ now = 0
  /\ nudges = << 0 >>
  /\ emitted = << >>
  /\ response = << >>
  /\ decr = << [pc |-> "idle", newLimit |-> 0] >>
  /\ lock = << FALSE >>
  /\ recheck = << FALSE >>
  /\ run = [w \in Workers |-> IdleRun]
  /\ decrements = << 0 >>
  /\ sock = [ws \in Sockets |-> "closed"]
  /\ joined = [ws \in Sockets |-> NoKey]
  /\ pendingMessages = [key \in HubKeys |-> << >>]
  /\ received = [ws \in Sockets |-> << >>]
  /\ writes = << >>
  /\ commitLog = << >>
  /\ creates = [r \in Requests |-> IdleCreate]
  /\ tokens = InitTokens
  /\ project_tokens = {}
  /\ switches = [r \in Requests |-> IdleSwitch]
  /\ deletion = IdleDeletion
  /\ agent_history_summaries = {}
  /\ saves = [r \in Requests |-> IdleSave]
  /\ memoryCalls = [pair \in ProjectIdSpace \X AgentIdSpace |-> NoCalls]

\* connections, join frames and the requests that change the paused flag
NextHub ==
  \/ HubConnect
  \/ HubJoin
  \/ HubClose
  \/ StatusToggle
  \/ SettingsToggle
  \/ InternalPause
  \/ DecrementBroadcast
  \/ ExhaustedPause

SpecHub == InitHub /\ [][NextHub]_vars

\* user sends and resumes followed up to their commit, with the brain
NextNudge ==
  \/ SendBody
  \/ SendCommit
  \/ ResumeBody
  \/ ResumeCommit
  \/ PauseByOwner
  \/ HandleNudge
  \/ FetchContext
  \/ LoopGuard
  \/ NextPending
  \/ CallLLM
  \/ Retry
  \/ FailStatus
  \/ FailLog
  \/ PersistSent
  \/ PersistInsert
  \/ PersistDecr
  \/ PersistPause
  \/ Done

SpecNudge == InitHub /\ [][NextNudge]_vars

\* ------------------------------------------------------------------ claims
\* the row the latest INSERT INTO messages wrote
LastMessage(msgs) == msgs[Len(msgs)]

\* a step that appends one row to the messages table
Inserted == Len(messages') = Len(messages) + 1

\* C1: in every reachable state a remaining budget <= 0 implies that the
\* project is paused.
C1_ExhaustedImpliesPaused ==
  \A p \in ProjectIds : projects[p].message_limit <= 0 => projects[p].paused

\* C2: decrement-budget(p) stores the budget minus one and returns that value;
\* if the new value is <= 0 then, when the call returns, p is paused and one
\* warn log with the message-limit code has been appended for p; if the new
\* value is > 0 the call returns at once, paused is unchanged and no log is
\* appended.
C2_DecrementPost ==
  [][\A p \in ProjectIds :
       LET old == projects[p].message_limit
           new == projects'[p].message_limit
       IN \* the UPDATE ... RETURNING of a decrement call
          /\ (decr[p].pc = "idle" /\ (decr'[p].pc = "pausing" \/ response' # << >>))
               => /\ new = old - 1
                  /\ IF new > 0
                     THEN /\ response' = << new >>
                          /\ decr'[p].pc = "idle"
                          /\ projects'[p].paused = projects[p].paused
                          /\ logs' = logs
                     ELSE /\ decr'[p] = [pc |-> "pausing", newLimit |-> new]
                          /\ response' = << >>
          \* the return of a call whose new value was <= 0
          /\ (decr[p].pc = "pausing" /\ decr'[p].pc = "idle")
               => /\ decr[p].newLimit <= 0
                  /\ response' = << decr[p].newLimit >>
                  /\ projects'[p].paused
                  /\ logs' = Append(logs, [project_id |-> p, level |-> "warn",
                                           code |-> "MESSAGE_LIMIT"])
          \* nothing else returns a value or leaves a call open
          /\ (decr[p].pc = "pausing" /\ decr'[p].pc = "pausing") => response' = << >>
    ]_vars

\* C2, the case: a decrement call has just returned a value <= 0, the project
\* is paused and the warn log is there
C2_Witness ==
  \E p \in ProjectIds :
    /\ response = << projects[p].message_limit >>
    /\ projects[p].message_limit <= 0
    /\ decr[p].pc = "idle"
    /\ projects[p].paused
    /\ Len(logs) > 0
    /\ logs[Len(logs)] = [project_id |-> p, level |-> "warn", code |-> "MESSAGE_LIMIT"]

\* C3: while a project is paused, a create-agent-message call never adds a
\* pending message to it.
C3_NoAgentPendingWhilePaused ==
  [][\A p \in ProjectIds :
       (projects[p].paused /\ Inserted /\ LastMessage(messages').project_id = p
          /\ LastMessage(messages').type = "assistant")
         => LastMessage(messages').status # "pending"]_vars

\* C4: in no reachable state does the number of assistant messages inserted
\* for a project differ from the number of decrements applied to its budget.
C4_InsertPairedWithDecrement ==
  \A p \in ProjectIds :
    Cardinality({id \in DOMAIN messages :
                   messages[id].project_id = p /\ messages[id].type = "assistant"})
      = decrements[p]

\* C5: a message status only moves pending -> sent or pending -> failed, every
\* status is one of pending, sent, failed, and no other field of a message
\* ever changes.
C5_StatusTransitions ==
  [][\A id \in DOMAIN messages :
       /\ messages'[id].status \in Statuses
       /\ [messages'[id] EXCEPT !.status = messages[id].status] = messages[id]
       /\ messages'[id].status # messages[id].status
            => /\ messages[id].status = "pending"
               /\ messages'[id].status \in {"sent", "failed"}]_vars

\* what a user send is stated to do: one row with sender System, a non-System
\* receiver taken from the conversation, status pending and type user;
\* last_activity_at bumped, new_message published, one nudge issued
UserSendPost(c) ==
  LET conv == conversations[c]
      p    == conv.project_id
      m    == LastMessage(messages')
  IN /\ Inserted
     /\ SubSeq(messages', 1, Len(messages)) = messages
     /\ m.conversation_id = c /\ m.project_id = p
     /\ m.sender_id = SystemAgentId
     /\ m.receiver_id # SystemAgentId
     /\ m.receiver_id \in {conv.sender_id, conv.receiver_id}
     /\ m.status = "pending"
     /\ m.type = "user"
     /\ projects'[p].last_activity_at = now'
     /\ now' > now
     /\ emitted' = << Event("new_message", p) >>
     /\ nudges'[p] = nudges[p] + 1

\* C6 as stated: every successful user send, whatever accepted body it
\* carries, has the effects of UserSendPost.
C6_AnyBody ==
  [][\A u \in Users, c \in DOMAIN conversations, type \in MsgTypes \cup {NoType} :
       SendMessageRequest(u, c, type) => UserSendPost(c)]_vars

\* C6: every successful user send whose body gives no type, or the type user,
\* inserts exactly one message with sender System, receiver the non-System
\* member of the conversation (its receiver when its sender is System, else
\* its sender), status pending and type user, bumps last_activity_at,
\* publishes new_message and issues a nudge.
C6_UserTypeBody ==
  [][\A u \in Users, c \in DOMAIN conversations, type \in {"user", NoType} :
       SendMessageRequest(u, c, type)
         => /\ UserSendPost(c)
            /\ LastMessage(messages').receiver_id =
                 IF conversations[c].sender_id = SystemAgentId
                 THEN conversations[c].receiver_id
                 ELSE conversations[c].sender_id]_vars

\* C6, the case: the last step was a user send; its row is pending, of type
\* user, from System, and the nudge is in flight
C6_Witness ==
  /\ Len(messages) > 0
  /\ LastMessage(messages).type = "user"
  /\ LastMessage(messages).status = "pending"
  /\ LastMessage(messages).sender_id = SystemAgentId
  /\ emitted = << Event("new_message", LastMessage(messages).project_id) >>
  /\ nudges[LastMessage(messages).project_id] = 1
  /\ projects[LastMessage(messages).project_id].last_activity_at = now

IsMember(p, a) == \E m \in members : m.project_id = p /\ m.agent_id = a

\* C7: every stored message has a sender and a receiver that are members of
\* its project, the project of its conversation, and a sorted (sender,
\* receiver) pair equal to the pair of its conversation.
C7_WellFormed ==
  \A id \in DOMAIN messages :
    LET m    == messages[id]
        conv == conversations[m.conversation_id]
    IN /\ IsMember(m.project_id, m.sender_id)
       /\ IsMember(m.project_id, m.receiver_id)
       /\ m.project_id = conv.project_id
       /\ Min(m.sender_id, m.receiver_id) = conv.sender_id
       /\ Max(m.sender_id, m.receiver_id) = conv.receiver_id

\* C8: a user send into a conversation of a project the caller does not own,
\* or into a conversation whose pair does not contain the System agent,
\* inserts no message, leaves last_activity_at unchanged, publishes no event
\* and issues no nudge.
C8_ForeignSendRejected ==
  [][\A u \in Users, c \in DOMAIN conversations, type \in MsgTypes \cup {NoType} :
       LET conv == conversations[c]
       IN (/\ \/ projects[conv.project_id].user_id # u
              \/ SystemAgentId \notin {conv.sender_id, conv.receiver_id}
           /\ SendMessageRequest(u, c, type))
            => /\ messages' = messages
               /\ projects' = projects
               /\ emitted' = << >>
               /\ nudges' = nudges]_vars

ActiveOn(p) == {w \in Workers : run[w].pc # "idle" /\ run[w].project = p}

C10_RetryThenFail ==
  [][\A w \in Workers :
       LET p == run[w].project
           t == run[w].trigger
       IN /\ run'[w].attempts <= MaxRetries
          /\ (run[w].pc = "call_llm" /\ run'[w].pc = "fail_status")
               => run'[w].attempts = MaxRetries
          /\ (run[w].pc = "call_llm" /\ run'[w].pc = "retry")
               => run'[w].attempts < MaxRetries
          /\ (run[w].pc = "fail_status" /\ run'[w] # run[w])
               => /\ run'[w].pc = "fail_log"
                  /\ messages' = [messages EXCEPT ![t].status = "failed"]
                  /\ projects' = projects /\ decrements' = decrements
                  /\ logs' = logs
          /\ (run[w].pc = "fail_log" /\ run'[w] # run[w])
               => /\ run'[w].pc = "next_pending"
                  /\ logs' = Append(logs, [project_id |-> p, level |-> "error",
                                           code |-> "FORMAT_INVALID"])
                  /\ messages' = messages
                  /\ projects' = projects /\ decrements' = decrements]_vars

\* C10, the case: the run has given up on a trigger after MaxRetries attempts
C10_Witness ==
  \E w \in Workers :
    /\ run[w].pc = "next_pending"
    /\ run[w].attempts = MaxRetries
    /\ messages[run[w].trigger].status = "failed"
    /\ Len(logs) > 0
    /\ logs[Len(logs)] = [project_id |-> run[w].project, level |-> "error",
                          code |-> "FORMAT_INVALID"]

\* the next call of thread w cannot be followed further: its table or counter
\* is at the size the model follows
StoppedByBound(w) ==
  LET p == run[w].project
  IN \/ run[w].pc = "persist_insert" /\ (Len(messages) >= MaxMsgs \/ now >= MaxClock)
     \/ run[w].pc \in {"fail_log", "persist_pause"} /\ Len(logs) >= MaxLogs
     \/ run[w].pc = "persist_decr" /\ projects[p].message_limit <= -MaxDebt

Pos(seq, x) == CHOOSE k \in 1..Len(seq) : seq[k] = x

InSeq(seq, x) == \E k \in 1..Len(seq) : seq[k] = x

\* C12: every event a subscriber has received was produced by a transaction
\* that had committed when the event was delivered: no socket holds an event
\* whose write is still open or was rolled back.
C12_DeliveredIsCommitted ==
  \A ws \in Sockets : \A k \in 1..Len(received[ws]) :
    InSeq(commitLog, received[ws][k].id)

\* C13: two events of one project that a subscriber has both received were
\* received in the order in which their writes committed.
C13_DeliveryFollowsCommitOrder ==
  \A ws \in Sockets : \A i, j \in 1..Len(received[ws]) :
    LET e1 == received[ws][i]
        e2 == received[ws][j]
    IN (/\ e1.projectId = e2.projectId
        /\ InSeq(commitLog, e1.id) /\ InSeq(commitLog, e2.id)
        /\ Pos(commitLog, e1.id) < Pos(commitLog, e2.id)) => i < j

\* ids of the events handed to the hub so far
PublishedIds ==
  {i \in 1..Len(writes) : writes[i].kind \in InTxKinds \/ writes[i].pc = "done"}

\* a subscriber is connected for project p
Subscribed(p) == \E ws \in Sockets : joined[ws] = p /\ sock[ws] = "open"

\* C14: an event published for a project with no connected subscriber is
\* appended to the project's queue; a socket that subscribes to the project
\* receives the whole queue, in order, after what it had received, and the
\* queue is then empty; and every published event is either held in the queue
\* of its project or was delivered to some subscriber.
C14_QueuedThenFlushed ==
  [][/\ \A p \in ProjectIdSpace :
          (emitted' # << >> /\ emitted'[1].projectId = p /\ ~Subscribed(p))
            => pendingMessages'[p] = Append(pendingMessages[p], emitted'[1])
     /\ \A ws \in Sockets, p \in ProjectIdSpace :
          (joined'[ws] = p /\ joined[ws] # p)
            => /\ received'[ws] = received[ws] \o pendingMessages[p]
               /\ pendingMessages'[p] = << >>
     /\ \A i \in PublishedIds' :
          \/ InSeq(pendingMessages'[writes'[i].project], EventOf(i)')
          \/ \E ws \in Sockets : InSeq(received'[ws], EventOf(i)')
    ]_vars

\* C15: the queue of a project stays under a fixed bound however many events
\* are published while nobody is subscribed: it never holds all of MaxWrites
\* published events, the oldest having been dropped before.
C15_BufferBounded ==
  \A p \in ProjectIdSpace : Len(pendingMessages[p]) < MaxWrites

\* C16: in every reachable state two conversation rows of one project never
\* have the same unordered pair of ends, and every conversation row has
\* sender <= receiver, whatever create-project and start-conversation calls
\* were made.
C16_ConversationUnique ==
  /\ \A i, j \in 1..Len(conversations) :
       (i # j /\ conversations[i].project_id = conversations[j].project_id)
         => {conversations[i].sender_id, conversations[i].receiver_id}
              # {conversations[j].sender_id, conversations[j].receiver_id}
  /\ \A i \in 1..Len(conversations) :
       conversations[i].sender_id <= conversations[i].receiver_id

\* a project holds a row made by create-project (System is an end) and a row
\* made by start-conversation (a user id at both ends)
C16_Witness ==
  \E i, j \in 1..Len(conversations) :
    /\ conversations[i].project_id = conversations[j].project_id
    /\ conversations[i].sender_id = SystemAgentId
    /\ conversations[j].sender_id = conversations[j].receiver_id

\* ids the k-th inline agent of a request can address, the agents taking ids
\* from base on: the indexes that name an agent of the request, itself excluded
Addressed(agents, base, k) ==
  {base + agents[k][x] : x \in {y \in 1..Len(agents[k]) :
                                 agents[k][y] \in 0..(Len(agents) - 1)}}
    \ {base + k - 1}

\* the unordered pairs, smaller id first, that the request asks conversations
\* for: agent with addressed agent, and System with every agent
ImpliedPairs(agents, base) ==
  UNION {{<< Min(base + k - 1, y), Max(base + k - 1, y) >> :
            y \in Addressed(agents, base, k)} : k \in 1..Len(agents)}
  \cup {<< SystemAgentId, base + k - 1 >> : k \in 1..Len(agents)}

C18_TitleUniquePerUser ==
  \A p, q \in ProjectIds :
    (p # q /\ projects[p].user_id = projects[q].user_id)
      => projects[p].title # projects[q].title

\* C19: a project is paused when it is created, and a step that takes a
\* project's paused flag from true to false is a resume requested by the
\* project's owner; a resume requested by anybody else changes no project.
C19_ResumeOnlyByOwner ==
  [][/\ \A p \in ProjectIds' \ ProjectIds : projects'[p].paused = TRUE
     /\ \A p \in ProjectIds :
          (projects[p].paused /\ ~projects'[p].paused)
            => updateProjectStatus(p, projects[p].user_id, FALSE)
     /\ \A p \in ProjectIds, u \in Users :
          (u # projects[p].user_id /\ updateProjectStatus(p, u, FALSE))
            => projects' = projects
    ]_vars

\* the owner has resumed a project that an internal pause had stopped
C19_Witness ==
  \E p \in ProjectIds :
    /\ ~projects[p].paused
    /\ \E k \in 1..Len(logs) : logs[k].project_id = p

\* C20: internal pause is idempotent: from any reachable store, the project
\* rows, logs and messages after two pauses of a project with the same code
\* equal those after one.
C20_PauseIdempotent ==
  \A p \in ProjectIds, code \in PauseCodes :
    LET store == [projects |-> projects, logs |-> logs, messages |-> messages]
        once  == pausedStore(store, p, code)
    IN pausedStore(once, p, code) = once

\* C21: a token leaves the tokens table only when no project_tokens row
\* points at it, and no row is ever left pointing at a token that is gone,
\* whatever change-token transactions run between the statements of
\* delete-token.
C21_DeleteOnlyUnused ==
  [][/\ \A t \in DOMAIN tokens \ DOMAIN tokens' :
          ~ \E b \in project_tokens : b.token_id = t
     /\ \A b \in project_tokens' : b.token_id \in DOMAIN tokens'
    ]_vars

\* C22: a change-token transaction is opened, and a binding written, only
\* for a token that the caller owns and that is active; a call with another
\* token leaves the bindings as they were.
C22_BindsOnlyActiveOwned ==
  [][\A r \in Requests :
       /\ (switches[r].pc = "idle" /\ switches'[r].pc = "checked")
            => isTokenActive(switches'[r].tokenId, switches'[r].u)
       /\ (switches[r].pc = "inserted" /\ project_tokens' # project_tokens)
            => /\ isTokenActive(switches[r].tokenId, switches[r].u)
               /\ \A b \in project_tokens' \ project_tokens :
                    b.token_id = switches[r].tokenId /\ b.project_id = switches[r].p
    ]_vars

\* C23: every project has at most one project_tokens row in every reachable
\* state, also when two change-token transactions for it overlap.
C23_OneBindingPerProject ==
  \A p \in ProjectIds : Cardinality(BindingsOf(p)) <= 1

\* the message keys of a refusal of a demo or snapshot mutation
ForbiddenErrors ==
  {"project.snapshotLocked", "project.snapshotModified", "project.limitExceeded",
   "Logs for snapshot projects cannot be cleared."}

\* C24: a request of the demo user on the snapshot project is refused with a
\* forbidden error and leaves the project rows, the messages and the logs as
\* they were.
C24_SnapshotReadOnly ==
  [][(response' # << >> /\ response'.projectId = snapshotProjectId)
       => /\ response'.error \in ForbiddenErrors
          /\ projects' = projects
          /\ messages' = messages
          /\ logs' = logs
    ]_vars

\* failures the client causes: a forbidden demo or snapshot mutation, a
\* project that does not exist or is not the caller's
ClientErrors == ForbiddenErrors \cup {"project.notFound"}

\* C25: a response to a failure the client caused carries a 4xx status.
C25_ClientErrorsAre4xx ==
  (response # << >> /\ response.error \in ClientErrors)
    => response.status \in 400..499

\* C26: the remaining budget of every project is a non-negative integer in
\* every reachable state, whatever set-budget and decrement-budget calls have
\* been made.
C26_BudgetNonNegative ==
  \A p \in ProjectIds : projects[p].message_limit \in Nat

\* the counts of the pair's memory row agree with the calls applied to it
MemoryAgrees ==
  \A p \in ProjectIdSpace, a \in AgentIdSpace :
    /\ Cardinality(MemoryRows(p, a)) <= 1
    /\ \A row \in MemoryRows(p, a) :
         /\ row.message_count = memoryCalls[<<p, a>>].increments
         /\ row.summary_count = memoryCalls[<<p, a>>].summaries
    /\ MemoryRows(p, a) = {} => memoryCalls[<<p, a>>] = NoCalls

\* C27: each (project, agent) has at most one memory row; after any
\* interleaving of increment-count and save-summary calls its message_count
\* is the number of increments since the last save-summary and its
\* summary_count the number of save-summary calls; increment-count returns
\* the new count.
C27_MemoryCounts ==
  [][/\ MemoryAgrees'
     /\ \A p \in ProjectIdSpace, a \in AgentIdSpace :
          memoryCalls'[<<p, a>>].increments = memoryCalls[<<p, a>>].increments + 1
            => response' = << memoryCalls'[<<p, a>>].increments >>
    ]_vars

\* a save-summary that read no row is still in progress while the row it
\* will update has been inserted by another save-summary and incremented
C27_Witness ==
  \E r \in Requests, row \in agent_history_summaries :
    /\ saves[r].pc = "values"
    /\ saves[r].p = row.project_id /\ saves[r].a = row.agent_id
    /\ saves[r].summary_count = 1
    /\ row.summary_count = 1
    /\ row.message_count = 1

\* a connection that has joined project p, under whichever key, and is OPEN
SubscribedTo(ws, p) == sock[ws] = "open" /\ joined[ws] # NoKey /\ joined[ws].id = p

\* C28: whenever the paused flag of a project changes, every client
\* subscribed to the project at that moment is sent a project_updated event
\* of the project in the same step.
C28_PauseChangeDelivered ==
  [][\A p \in ProjectIds :
       projects'[p].paused # projects[p].paused
         => \A ws \in Sockets :
              SubscribedTo(ws, p)
                => /\ Len(received'[ws]) = Len(received[ws]) + 1
                   /\ received'[ws][Len(received'[ws])] = Event("project_updated", p)
    ]_vars

\* C30: a connection is sent events of the projects of its own user only,
\* and a join frame naming another user's project takes nothing out of that
\* project's queue.
C30_HubIsolation ==
  [][\A ws \in Sockets :
       /\ \A i \in (Len(received[ws]) + 1)..Len(received'[ws]) :
            projects[received'[ws][i].projectId].user_id = SocketUser[ws]
       /\ (/\ joined'[ws] # joined[ws]
           /\ joined'[ws] # NoKey
           /\ projects[joined'[ws].id].user_id # SocketUser[ws])
            => pendingMessages' = pendingMessages
    ]_vars

\* a committed user message of p is pending
PendingUserMessage(p) ==
  \E id \in DOMAIN messages :
    /\ messages[id].project_id = p
    /\ messages[id].type = "user"
    /\ messages[id].status = "pending"

\* C29: no wake-up is lost: while a user message of an unpaused project with
\* budget is pending, a nudge of the project is in flight or a run holds the
\* project's lock; no run that the nudge of a send or of a resume started
\* has come and gone before the commit.
C29_NoLostWakeup ==
  \A p \in ProjectIds :
    (/\ PendingUserMessage(p)
     /\ ~projects[p].paused
     /\ projects[p].message_limit > 0)
      => nudges[p] > 0 \/ lock[p]

====
